---------------------------- MODULE Spec2Model ----------------------------
(***************************************************************************)
(* Model of pathfinder(grid, start, goal, obstacle_value=2) of             *)
(* src/pathfinder.py: an A*-style search over a rectangular grid with      *)
(* 8-directional unit-cost moves, a binary heap of (f, cell) tuples as the *)
(* open set, a closed set, a predecessor map and the Manhattan heuristic.  *)
(* Cells are <<row, col>> with 0-based coordinates, as in the source.      *)
(***************************************************************************)
EXTENDS Integers, Sequences, FiniteSets, TLC

VARIABLES grid, rows, cols, start, goal,
          open_set, closed_set, came_from, g_score, f_score,
          current, path, pc, result, expanded, reexpanded

vars == <<grid, rows, cols, start, goal, open_set, closed_set, came_from,
          g_score, f_score, current, path, pc, result, expanded, reexpanded>>

inputs == <<grid, rows, cols, start, goal>>

(***************************************************************************)
(* Bounds of the checked inputs.                                           *)
(***************************************************************************)
MaxRows == 3
MaxCols == 4
MaxObstacles == 1
MaxSide == 5

(***************************************************************************)
(* Program constants.                                                      *)
(***************************************************************************)
obstacle_value == 2

\* Variant: the four orthogonal moves only.
directions_Orthogonal == << <<0, 1>>, <<1, 0>>, <<0, -1>>, <<-1, 0>> >>

directions ==
  << <<0, 1>>, <<1, 0>>, <<0, -1>>, <<-1, 0>>,
     <<1, 1>>, <<1, -1>>, <<-1, 1>>, <<-1, -1>> >>

(***************************************************************************)
(* Pure helpers.                                                           *)
(***************************************************************************)
Abs(x) == IF x < 0 THEN -x ELSE x

manhattan_distance(a, b) == Abs(a[1] - b[1]) + Abs(a[2] - b[2])

CellsOf(R, C) == (0 .. R - 1) \X (0 .. C - 1)

Cells == CellsOf(rows, cols)

\* Variant: the row bound is off by one.
InBounds_OffByOne(n) == 0 <= n[1] /\ n[1] < rows - 1 /\ 0 <= n[2] /\ n[2] < cols

InBounds(n) == 0 <= n[1] /\ n[1] < rows /\ 0 <= n[2] /\ n[2] < cols

\* Variant: the comparison uses the wrong label.
IsObstacle_WrongLabel(n) == grid[n] = 1

IsObstacle(n) == grid[n] = obstacle_value

InClosed(n, closed) == n \in closed

\* Python's order on the heap entries (f, (row, col)): lexicographic.
TupleLess(a, b) ==
  \/ a[1] < b[1]
  \/ a[1] = b[1] /\ a[2][1] < b[2][1]
  \/ a[1] = b[1] /\ a[2][1] = b[2][1] /\ a[2][2] < b[2][2]

\* Variant: the pop yields the largest entry.
HeapTop_Largest(heap) == CHOOSE e \in heap : \A o \in heap : o = e \/ TupleLess(o, e)

\* heapq.heappop returns the smallest entry.  An entry for an already queued
\* cell is pushed only with a strictly smaller g (hence f), so the heap never
\* holds two equal tuples and a set of tuples represents it.
HeapTop(heap) == CHOOSE e \in heap : \A o \in heap : o = e \/ TupleLess(e, o)

HeapRest(heap) == heap \ {HeapTop(heap)}

HeapPush(heap, e) == heap \cup {e}

\* [i[1] for i in open_set]
QueuedCells(heap) == {e[2] : e \in heap}

Put(m, k, v) == [x \in DOMAIN m \cup {k} |-> IF x = k THEN v ELSE m[x]]

RECURSIVE Reverse(_)
Reverse(s) == IF s = <<>> THEN <<>> ELSE Append(Reverse(Tail(s)), Head(s))

(***************************************************************************)
(* Inputs.  generate_grid labels cells 0, 1 or 2; only the comparison with *)
(* obstacle_value matters to the search.                                   *)
(***************************************************************************)
RECURSIVE SubsetsUpTo(_, _)
SubsetsUpTo(S, k) ==
  IF k = 0 THEN {{}}
  ELSE LET P == SubsetsUpTo(S, k - 1) IN P \cup {p \cup {x} : p \in P, x \in S}

\* A grid whose traversable cells alternate between the labels 0 and 1.
MixedGrid(R, C, obs) ==
  [c \in CellsOf(R, C) |-> IF c \in obs THEN obstacle_value ELSE (c[1] + c[2]) % 2]

\* A grid whose traversable cells are all 0.
ZeroGrid(R, C, obs) ==
  [c \in CellsOf(R, C) |-> IF c \in obs THEN obstacle_value ELSE 0]

\* An obstacle wall at column w, rows 0 .. n-2, the last row left open.
WallCells(n, w) == {<<r, w>> : r \in 0 .. n - 2}

NoCell == <<-1, -1>>

\* The local state at the entry of pathfinder (lines 36-41): nothing queued.
Entry ==
  /\ open_set = {}
  /\ closed_set = {}
  /\ came_from = <<>>
  /\ g_score = <<>>
  /\ f_score = <<>>
  /\ current = NoCell
  /\ path = <<>>
  /\ result = "running"
  /\ expanded = {}
  /\ reexpanded = {}

\* The cells around e, inside an n x n grid: the obstacles that enclose e.
EnclosureCells(n, e) ==
  {c \in CellsOf(n, n) : c # e /\ c[1] - e[1] \in -1 .. 1 /\ c[2] - e[2] \in -1 .. 1}

\* Every grid of at most MaxRows x MaxCols cells with at most MaxObstacles
\* obstacles, every in-bounds start and goal (obstacle cells included).
InputSmall ==
  \E R \in 1 .. MaxRows, C \in 1 .. MaxCols :
    /\ rows' = R
    /\ cols' = C
    /\ \E obs \in SubsetsUpTo(CellsOf(R, C), MaxObstacles) :
         grid' = MixedGrid(R, C, obs)
    /\ start' \in CellsOf(R, C)
    /\ goal' \in CellsOf(R, C)

\* Square all-zero grids of side 3 .. MaxSide: open, with one wall, or with
\* one enclosed cell; every traversable start and goal (what the caller at
\* lines 180-183 guarantees).
InputScenario ==
  \E n \in 3 .. MaxSide :
    /\ rows' = n
    /\ cols' = n
    /\ \E obs \in {{}} \cup {WallCells(n, w) : w \in 0 .. n - 1}
                      \cup {EnclosureCells(n, e) : e \in CellsOf(n, n)} :
         /\ grid' = ZeroGrid(n, n, obs)
         /\ start' \in CellsOf(n, n) \ obs
         /\ goal' \in CellsOf(n, n) \ obs

\* No call yet: the arguments are not bound.
Init ==
  /\ grid = <<>>
  /\ rows = 0
  /\ cols = 0
  /\ start = NoCell
  /\ goal = NoCell
  /\ pc = "idle"
  /\ Entry

(***************************************************************************)
(* The search.                                                             *)
(***************************************************************************)
\* Lines 17, 30-41: pathfinder is called on a small grid.
CallSmall ==
  /\ pc = "idle"
  /\ InputSmall
  /\ pc' = "init"
  /\ UNCHANGED <<open_set, closed_set, came_from, g_score, f_score, current,
                 path, result, expanded, reexpanded>>

\* Lines 17, 30-41: pathfinder is called on a scenario grid.
CallScenario ==
  /\ pc = "idle"
  /\ InputScenario
  /\ pc' = "init"
  /\ UNCHANGED <<open_set, closed_set, came_from, g_score, f_score, current,
                 path, result, expanded, reexpanded>>

\* Lines 44-50: the scores of start and the first push.
Setup ==
  /\ pc = "init"
  /\ g_score' = Put(g_score, start, 0)
  /\ f_score' = Put(f_score, start, manhattan_distance(start, goal))
  /\ open_set' = HeapPush(open_set, <<manhattan_distance(start, goal), start>>)
  /\ pc' = "loop"
  /\ UNCHANGED <<inputs, closed_set, came_from, current, path, result, expanded, reexpanded>>

\* Variant: an equal g also counts as better.
ShouldPush_NotStrict(n, tentative_g, heap, g) ==
  \/ n \notin QueuedCells(heap)
  \/ n \notin DOMAIN g
  \/ tentative_g <= g[n]

\* Line 89: not queued, or a better g than the recorded one (default infinity).
ShouldPush(n, tentative_g, heap, g) ==
  \/ n \notin QueuedCells(heap)
  \/ n \notin DOMAIN g
  \/ tentative_g < g[n]

\* Lines 71-95 for one direction d; st = [open, came, g, f].
Relax(st, cur, d, closed) ==
  LET neighbor == <<cur[1] + d[1], cur[2] + d[2]>> IN
  IF ~InBounds(neighbor) THEN st
  ELSE IF IsObstacle(neighbor) THEN st
  ELSE IF InClosed(neighbor, closed) THEN st
  ELSE LET tentative_g == st.g[cur] + 1 IN
       IF ShouldPush(neighbor, tentative_g, st.open, st.g)
       THEN LET f == tentative_g + manhattan_distance(neighbor, goal) IN
            [open |-> HeapPush(st.open, <<f, neighbor>>),
             came |-> Put(st.came, neighbor, cur),
             g    |-> Put(st.g, neighbor, tentative_g),
             f    |-> Put(st.f, neighbor, f)]
       ELSE st

\* Line 70: the loop over the 8 directions, in order.  The state st of one
\* iteration is bound to a value (s) before the next iteration reads it.
RECURSIVE NeighborLoop(_, _, _, _)
NeighborLoop(i, st, cur, closed) ==
  IF i > Len(directions) THEN st
  ELSE CHOOSE r \in {NeighborLoop(i + 1, Relax(s, cur, directions[i], closed),
                                  cur, closed) : s \in {st}} : TRUE

\* Lines 52-57: a pop that yields the goal; the walk back starts.
PopGoal ==
  /\ pc = "loop"
  /\ open_set # {}
  /\ \E top \in {HeapTop(open_set)} :
       /\ top[2] = goal
       /\ open_set' = HeapRest(open_set)
       /\ current' = top[2]
  /\ path' = <<>>
  /\ pc' = "walk"
  /\ UNCHANGED <<inputs, closed_set, came_from, g_score, f_score, result,
                 expanded, reexpanded>>

\* Lines 52-95: a pop that yields another cell; it is closed and expanded.
PopExpand ==
  /\ pc = "loop"
  /\ open_set # {}
  /\ \E top \in {HeapTop(open_set)} :
       /\ top[2] # goal
       /\ \E st \in {NeighborLoop(1,
                        [open |-> HeapRest(open_set), came |-> came_from,
                         g |-> g_score, f |-> f_score],
                        top[2], closed_set \cup {top[2]})} :
            /\ current' = top[2]
            /\ closed_set' = closed_set \cup {top[2]}
            /\ open_set' = st.open
            /\ came_from' = st.came
            /\ g_score' = st.g
            /\ f_score' = st.f
       /\ expanded' = expanded \cup {top[2]}
       /\ reexpanded' = IF top[2] \in expanded THEN reexpanded \cup {top[2]}
                        ELSE reexpanded
  /\ UNCHANGED <<inputs, path, pc, result>>

\* Variant: the predecessor is collected instead of the cell.
WalkBody_Predecessor(p, cur) == Append(p, came_from[cur])

\* Lines 60-61: the body of the walk over the predecessor map.
WalkBody(p, cur) == Append(p, cur)

\* Lines 59-61.
WalkStep ==
  /\ pc = "walk"
  /\ current \in DOMAIN came_from
  /\ path' = WalkBody(path, current)
  /\ current' = came_from[current]
  /\ UNCHANGED <<inputs, open_set, closed_set, came_from, g_score, f_score,
                 pc, result, expanded, reexpanded>>

\* Variant: start is not appended.
FinishPath_NoStart(p, s) == Reverse(p)

\* Lines 62-63.
FinishPath(p, s) == Reverse(Append(p, s))

\* Lines 59, 62-64.
WalkEnd ==
  /\ pc = "walk"
  /\ current \notin DOMAIN came_from
  /\ path' = FinishPath(path, start)
  /\ result' = "path"
  /\ pc' = "done"
  /\ UNCHANGED <<inputs, open_set, closed_set, came_from, g_score, f_score,
                 current, expanded, reexpanded>>

\* Lines 52, 98: the open set is empty.
ReturnNone ==
  /\ pc = "loop"
  /\ open_set = {}
  /\ result' = "none"
  /\ pc' = "done"
  /\ UNCHANGED <<inputs, open_set, closed_set, came_from, g_score, f_score,
                 current, path, expanded, reexpanded>>

Next == CallSmall \/ CallScenario \/ Setup \/ PopGoal \/ PopExpand \/ WalkStep \/ WalkEnd \/ ReturnNone

Spec == Init /\ [][Next]_vars

\* The call runs to its end: nothing suspends it (synchronous, single thread).
FairSpec == Init /\ [][Next]_vars /\ WF_vars(Next)

(***************************************************************************)
(* Vocabulary of the properties, independent of the search operators.      *)
(***************************************************************************)
Called == pc # "idle"

Traversable(c) == grid[c] # obstacle_value

EndpointsFree == Called /\ Traversable(start) /\ Traversable(goal)

EndpointBlocked == Called /\ (~Traversable(start) \/ ~Traversable(goal))

Returned == pc = "done" /\ result = "path"

Edges == Len(path) - 1

\* One of the 8 offsets (0,+-1), (+-1,0), (+-1,+-1).
Adjacent(a, b) ==
  /\ a # b
  /\ a[1] - b[1] \in -1 .. 1
  /\ a[2] - b[2] \in -1 .. 1

\* Breadth-first layers over traversable cells: the number of moves of a
\* shortest walk from the cells of front (at distance d) to t, -1 if none.
RECURSIVE Layer(_, _, _, _)
Layer(front, seen, d, t) ==
  IF t \in front THEN d
  ELSE IF front = {} THEN -1
  ELSE LET nxt == {n \in Cells \ seen :
                     Traversable(n) /\ \E c \in front : Adjacent(c, n)}
       IN Layer(nxt, seen \cup nxt, d + 1, t)

ShortestLen(s, t) == Layer({s}, {s}, 0, t)

Chebyshev(a, b) ==
  IF Abs(a[1] - b[1]) > Abs(a[2] - b[2]) THEN Abs(a[1] - b[1]) ELSE Abs(a[2] - b[2])

PathCells == {path[i] : i \in 1 .. Len(path)}

NoObstacles == Called /\ \A c \in Cells : Traversable(c)

\* The 5x5 scenario: zeros, a wall at column 2 rows 0-3, (0,0) to (0,4).
WallScenario ==
  /\ rows = 5
  /\ cols = 5
  /\ grid = ZeroGrid(5, 5, WallCells(5, 2))
  /\ start = <<0, 0>>
  /\ goal = <<0, 4>>

(***************************************************************************)
(* Properties.                                                             *)
(***************************************************************************)
\* C1: with traversable in-bounds start and goal, a returned path is a
\* shortest one: its edge count is the minimum number of 8-directional moves
\* through traversable cells from start to goal.
C1_ShortestPath ==
  (EndpointsFree /\ Returned) => Edges = ShortestLen(start, goal)

\* C2: with traversable in-bounds start and goal, a returned path is a legal
\* walk: it begins at start, ends at goal, consecutive cells differ by one of
\* the 8 offsets, and every cell is in bounds and not an obstacle.
C2_LegalWalk ==
  (EndpointsFree /\ Returned) =>
    /\ Len(path) >= 1
    /\ path[1] = start
    /\ path[Len(path)] = goal
    /\ \A i \in 1 .. Len(path) - 1 : Adjacent(path[i], path[i + 1])
    /\ \A i \in 1 .. Len(path) : path[i] \in Cells /\ Traversable(path[i])

C2_Witness ==
  /\ EndpointsFree
  /\ Returned
  /\ ~NoObstacles
  /\ Len(path) >= 5

\* C3: with traversable in-bounds start and goal, the call returns None
\* exactly when goal cannot be reached from start by 8-directional moves
\* through traversable cells.
C3_NoneIffUnreachable ==
  (EndpointsFree /\ pc = "done") =>
    (result = "none" <=> ShortestLen(start, goal) = -1)

\* A start whose 8 neighbours are all obstacles, the goal elsewhere: None.
C3_Witness ==
  /\ EndpointsFree
  /\ pc = "done"
  /\ result = "none"
  /\ start # goal
  /\ Cardinality({c \in Cells : Adjacent(start, c) /\ ~Traversable(c)}) = 8

\* C4: on a grid without obstacles and with start # goal, the returned path
\* has as many edges as the Chebyshev distance between start and goal.
C4_ChebyshevOnOpenGrid ==
  (NoObstacles /\ start # goal /\ Returned) => Edges = Chebyshev(start, goal)

C4_Witness ==
  /\ NoObstacles
  /\ Returned
  /\ Abs(start[1] - goal[1]) = 2
  /\ Abs(start[2] - goal[2]) = 4
  /\ Edges = 4

\* C5: if start or goal is an obstacle, the call fails with BlockedEndpoint
\* before the loop: nothing is popped, nothing is expanded, and the outcome
\* is neither a path nor None.
C5_BlockedEndpointRejected ==
  EndpointBlocked =>
    /\ current = NoCell
    /\ expanded = {}
    /\ pc = "done" => result = "BlockedEndpoint"

\* C6 (as stated): in the 5x5 wall scenario the returned path passes through
\* (4,2) and has exactly 6 edges.
C6_SixEdges ==
  (WallScenario /\ pc = "done") =>
    /\ result = "path"
    /\ <<4, 2>> \in PathCells
    /\ Edges = 6

\* C6 (amended): in the 5x5 wall scenario the returned path passes through
\* (4,2) and has exactly 8 edges.
C6_EightEdges ==
  (WallScenario /\ pc = "done") =>
    /\ result = "path"
    /\ <<4, 2>> \in PathCells
    /\ Edges = 8

C6_Witness == WallScenario /\ Returned /\ <<4, 2>> \in PathCells

\* C7: with start = goal traversable, the call returns [start] on the first
\* pop: nothing is added to the closed set, no neighbour is examined or
\* pushed.
C7_StartIsGoal ==
  (EndpointsFree /\ start = goal) =>
    /\ closed_set = {}
    /\ expanded = {}
    /\ came_from = <<>>
    /\ DOMAIN g_score \subseteq {start}
    /\ QueuedCells(open_set) \subseteq {start}
    /\ pc = "done" => (result = "path" /\ path = <<start>> /\ open_set = {})

C7_Witness ==
  /\ EndpointsFree
  /\ start = goal
  /\ Returned
  /\ path = <<start>>
  /\ Cardinality(Cells) > 1

\* C8: no cell occurs twice in a returned path; start occurs once, as the
\* first element, and the walk back never collects start before it stops.
C8_NoRepeatedCell ==
  /\ pc = "walk" => start \notin PathCells
  /\ Returned =>
       /\ path[1] = start
       /\ \A i, j \in 1 .. Len(path) : path[i] = path[j] => i = j
       /\ \A i \in 1 .. Len(path) : path[i] = start => i = 1

C8_Witness == Returned /\ Len(path) >= 5 /\ path[1] = start

\* C9: a cell already marked visited is never expanded again: the neighbour
\* loop runs at most once per cell in one call (stated for the calls the
\* contract admits: traversable start and goal).
C9_NoReExpansion == EndpointsFree => reexpanded = {}

\* C10: the call terminates, and every step that queues a cell either
\* discovers it or strictly lowers its g score.
PushRule ==
  /\ \A e \in open_set' \ open_set :
       e[2] \notin DOMAIN g_score \/ g_score'[e[2]] < g_score[e[2]]
  /\ \A n \in DOMAIN g_score :
       /\ n \in DOMAIN g_score'
       /\ g_score'[n] <= g_score[n]
       /\ (n \in DOMAIN came_from /\ came_from'[n] # came_from[n])
            => g_score'[n] < g_score[n]

C10_Terminates == <>(pc = "done") /\ [][PushRule]_vars

C10_Witness == pc = "done" /\ result = "none" /\ Cardinality(closed_set) >= 6

=============================================================================
